---- MODULE Spec2Model ----
(***************************************************************************)
(* ReactDOMUnknownPropertyHook (the property validator) and the `value`    *)
(* mutation method of DOMProperty.                                         *)
(*                                                                         *)
(* Property names and tag names are sequences of one-character strings, so *)
(* that toLowerCase and indexOf('-') are computed character by character.  *)
(* A JavaScript object is a function from its own keys to their values.    *)
(***************************************************************************)
EXTENDS Integers, Sequences, FiniteSets, TLC

VARIABLES
  dev,               \* __DEV__ of this build
  warnedProperties,  \* the module-level cache object
  calls,             \* hook calls made so far
  last,              \* the most recent hook call: its input and what it did
  warnCount,         \* per name: warnings emitted so far that are about it
  node,              \* the DOM node handed to properties.value.mutationMethod
  lastMutation,      \* the most recent mutationMethod call
  mutations          \* mutationMethod calls made so far

vars == <<dev, warnedProperties, calls, last, warnCount,
          node, lastMutation, mutations>>

hookVars == <<dev, warnedProperties, calls, last, warnCount>>
nodeVars == <<node, lastMutation, mutations>>

(* ------------------------------ bounds --------------------------------- *)
\* longest prop bag handed to one call
MaxProps == 2
\* number of hook calls in one run
MaxCalls == 2
\* longest prop bag of an element handed to onBeforeMountComponent or
\* onBeforeUpdateComponent
MaxElementProps == 1
\* number of mutationMethod calls in one run
MaxMutations == 3

(* ------------------------------ strings -------------------------------- *)
UpperAlphabet == <<"A","B","C","D","E","F","G","H","I","J","K","L","M",
                   "N","O","P","Q","R","S","T","U","V","W","X","Y","Z">>
LowerAlphabet == <<"a","b","c","d","e","f","g","h","i","j","k","l","m",
                   "n","o","p","q","r","s","t","u","v","w","x","y","z">>

toLowerCaseChar(c) ==
  IF \E i \in 1..26 : UpperAlphabet[i] = c
    THEN LowerAlphabet[CHOOSE i \in 1..26 : UpperAlphabet[i] = c]
    ELSE c

toLowerCase(s) == [i \in 1..Len(s) |-> toLowerCaseChar(s[i])]

\* String.prototype.indexOf for a one-character needle, 0-based, -1 if absent
indexOf(s, c) ==
  IF \E i \in 1..Len(s) : s[i] = c
    THEN (CHOOSE i \in 1..Len(s) : s[i] = c /\ \A j \in 1..(i-1) : s[j] # c) - 1
    ELSE -1

RECURSIVE join(_, _)
\* Array.prototype.join
join(parts, sep) ==
  IF Len(parts) = 0 THEN <<>>
  ELSE IF Len(parts) = 1 THEN parts[1]
  ELSE parts[1] \o sep \o join(Tail(parts), sep)

\* the backquote character, which a string literal here cannot hold; in the
\* format strings below it is written as an apostrophe
BACKQUOTE == "BACKQUOTE"

\* obj.hasOwnProperty(key) for an object that does not shadow hasOwnProperty
hasOwnProperty(obj, key) == key \in DOMAIN obj

(* ------------------------------- names --------------------------------- *)
n_hasOwnProperty == <<"h","a","s","O","w","n","P","r","o","p","e","r","t","y">>
n_class          == <<"c","l","a","s","s">>
n_Class          == <<"C","l","a","s","s">>
n_className      == <<"c","l","a","s","s","N","a","m","e">>
n_classname      == <<"c","l","a","s","s","n","a","m","e">>
n_for            == <<"f","o","r">>
n_htmlFor        == <<"h","t","m","l","F","o","r">>
n_autofocus      == <<"a","u","t","o","f","o","c","u","s">>
n_autoFocus      == <<"a","u","t","o","F","o","c","u","s">>
n_acceptCharset  == <<"a","c","c","e","p","t","C","h","a","r","s","e","t">>
n_accept_charset == <<"a","c","c","e","p","t","-","c","h","a","r","s","e","t">>
n_httpEquiv      == <<"h","t","t","p","E","q","u","i","v">>
n_http_equiv     == <<"h","t","t","p","-","e","q","u","i","v">>
n_rowSpan        == <<"r","o","w","S","p","a","n">>
n_rowspan        == <<"r","o","w","s","p","a","n">>
n_value          == <<"v","a","l","u","e">>
n_onClick        == <<"o","n","C","l","i","c","k">>
n_onclick        == <<"o","n","c","l","i","c","k">>
n_onChange       == <<"o","n","C","h","a","n","g","e">>
n_children       == <<"c","h","i","l","d","r","e","n">>
n_key            == <<"k","e","y">>
n_ref            == <<"r","e","f">>
n_dangerouslySetInnerHTML ==
  <<"d","a","n","g","e","r","o","u","s","l","y","S","e","t",
    "I","n","n","e","r","H","T","M","L">>
n_defaultValue   == <<"d","e","f","a","u","l","t","V","a","l","u","e">>
n_defaultChecked == <<"d","e","f","a","u","l","t","C","h","e","c","k","e","d">>
n_innerHTML      == <<"i","n","n","e","r","H","T","M","L">>
n_suppressContentEditableWarning ==
  <<"s","u","p","p","r","e","s","s","C","o","n","t","e","n","t",
    "E","d","i","t","a","b","l","e","W","a","r","n","i","n","g">>
n_onFocusIn      == <<"o","n","F","o","c","u","s","I","n">>
n_onFocusOut     == <<"o","n","F","o","c","u","s","O","u","t">>
n_foo            == <<"f","o","o">>
n_is             == <<"i","s">>
t_div            == <<"d","i","v">>
t_my_element     == <<"m","y","-","e","l">>

(* ----------------------------- DOMProperty ----------------------------- *)
RESERVED_PROPS ==
  [k \in {n_children, n_dangerouslySetInnerHTML, n_key, n_ref, n_autoFocus,
          n_defaultValue, n_defaultChecked, n_innerHTML,
          n_suppressContentEditableWarning, n_onFocusIn, n_onFocusOut}
     |-> TRUE]

isReservedProp(name) == hasOwnProperty(RESERVED_PROPS, name)

\* DOMProperty.properties, the entries the names above can reach
properties ==
  (n_acceptCharset :> [attributeName |-> n_accept_charset]) @@
  (n_className     :> [attributeName |-> n_class]) @@
  (n_htmlFor       :> [attributeName |-> n_for]) @@
  (n_httpEquiv     :> [attributeName |-> n_http_equiv]) @@
  (n_rowSpan       :> [attributeName |-> n_rowspan]) @@
  (n_value         :> [attributeName |-> n_value])

\* the own keys of the exported DOMProperty object
DOMPropertyKeys ==
  {"ID_ATTRIBUTE_NAME", "ROOT_ATTRIBUTE_NAME", "ATTRIBUTE_NAME_START_CHAR",
   "ATTRIBUTE_NAME_CHAR", "properties", "getPossibleStandardName",
   "isReservedProp"}

\* the keys a for-in over DOMProperty[field] visits; a for-in over undefined
\* visits nothing
DOMPropertyForIn(field) ==
  IF field \notin DOMPropertyKeys THEN {}
  ELSE IF field = "properties" THEN DOMAIN properties
  ELSE IF field = "getPossibleStandardName" THEN {n_autofocus}
  ELSE {}

(* ------------------------- EventPluginRegistry ------------------------- *)
registrationNameModules ==
  [k \in {n_onClick, n_onChange} |-> "SimpleEventPlugin"]

possibleRegistrationNames ==
  [k \in {toLowerCase(r) : r \in DOMAIN registrationNameModules} |->
     CHOOSE r \in DOMAIN registrationNameModules : toLowerCase(r) = k]

(* --------------------- ReactDOMUnknownPropertyHook --------------------- *)
None == <<>>
Some(x) == <<x>>

NoDebugID == 0

\* the addendum is produced by ReactComponentTreeHook / ReactDebugCurrentFrame;
\* only which of the two is asked is kept
getStackAddendum(debugID) ==
  IF debugID # NoDebugID THEN "getStackAddendumByID" ELSE ""

\* the messages handed to warning()
eventHandlerFormat ==
  "Unknown event handler property %s. Did you mean '%s'?%s"
domPropertyFormat == "Unknown DOM property %s. Did you mean %s?%s"
unknownPropFormat ==
  "Unknown prop %s on <%s> tag. Remove this prop from the element. For details, see https://fb.me/react-unknown-prop%s"
unknownPropsFormat ==
  "Unknown props %s on <%s> tag. Remove these props from the element. For details, see https://fb.me/react-unknown-prop%s"

\* possibleStandardNames as the object literal sets it
aliasTable ==
  (n_autofocus      :> n_autoFocus) @@
  (n_class          :> n_className) @@
  (n_for            :> n_htmlFor) @@
  (n_accept_charset :> n_acceptCharset) @@
  (n_http_equiv     :> n_httpEquiv)

\* the keys the loop over DOMProperty.attributeName visits
attributeNameKeys == DOMPropertyForIn("attributeName")

\* possibleStandardNames after the loop over DOMProperty.attributeName
possibleStandardNames ==
  [k \in {toLowerCase(key) : key \in attributeNameKeys} |->
     CHOOSE key \in attributeNameKeys : toLowerCase(key) = k] @@ aliasTable

\* warnedProperties.hasOwnProperty resolves to the own property of that name
\* once the cache has one, and that value (true) is not callable
hasOwnPropertyShadowed(wp) == n_hasOwnProperty \in DOMAIN wp

\* the cache is never consulted
alreadyWarned_Never(wp, name) == FALSE

alreadyWarned(wp, name) == hasOwnProperty(wp, name) /\ wp[name]

\* the exact registration names are not let through
isRegistrationName_Never(name) == FALSE

isRegistrationName(name) == hasOwnProperty(registrationNameModules, name)

standardNameOf(name) ==
  IF hasOwnProperty(possibleStandardNames, name)
    THEN Some(possibleStandardNames[name])
    ELSE None

\* a name without a standard name falls through to the reserved-prop test
checkCasing_FallsThrough(name, standardName, debugID) ==
  IF standardName # None /\ standardName[1] = name
    THEN [ret |-> TRUE, out |-> <<>>]
  ELSE IF standardName # None
    THEN [ret |-> TRUE,
          out |-> <<[format |-> domPropertyFormat,
                     args   |-> <<name, standardName[1]>>,
                     stack  |-> getStackAddendum(debugID)]>>]
  ELSE [ret |-> isReservedProp(name), out |-> <<>>]

\* the end of validateProperty, once standardName is known
checkCasing(name, standardName, debugID) ==
  IF ~(standardName # None /\ standardName[1] # name)   \* !hasBadCasing
    THEN [ret |-> TRUE, out |-> <<>>]
  ELSE IF standardName # None
    THEN [ret |-> TRUE,
          out |-> <<[format |-> domPropertyFormat,
                     args   |-> <<name, standardName[1]>>,
                     stack  |-> getStackAddendum(debugID)]>>]
  ELSE [ret |-> isReservedProp(name), out |-> <<>>]

\* the part of validateProperty after the event-handler checks
validateStandardName(name, debugID) ==
  checkCasing(name, standardNameOf(name), debugID)

registrationNameOf(lowerCasedName) ==
  IF hasOwnProperty(possibleRegistrationNames, lowerCasedName)
    THEN Some(possibleRegistrationNames[lowerCasedName])
    ELSE None

\* validateProperty after `warnedProperties[name] = true`
validateUncached(name, registrationName, debugID) ==
  IF isRegistrationName(name) THEN [ret |-> TRUE, out |-> <<>>]
  ELSE IF registrationName # None
    THEN [ret |-> TRUE,
          out |-> <<[format |-> eventHandlerFormat,
                     args   |-> <<name, registrationName[1]>>,
                     stack  |-> getStackAddendum(debugID)]>>]
  ELSE validateStandardName(name, debugID)

\* the outcome of one validateProperty call: thrown or not, the value
\* returned, the cache afterwards and the warnings handed to the sink
Outcome(wp, r) == [threw |-> FALSE, ret |-> r.ret, wp |-> wp, out |-> r.out]

validateProperty(wp, tagName, name, debugID) ==
  IF hasOwnPropertyShadowed(wp)
    THEN [threw |-> TRUE, ret |-> FALSE, wp |-> wp, out |-> <<>>]
  ELSE IF alreadyWarned(wp, name)
    THEN [threw |-> FALSE, ret |-> TRUE, wp |-> wp, out |-> <<>>]
  ELSE Outcome((name :> TRUE) @@ wp,
               validateUncached(name, registrationNameOf(toLowerCase(name)),
                                debugID))

\* what one call has done so far: thrown or not, the cache, the warnings
\* handed to the sink, unknownProps, validateProperty's return values, and
\* whether warnUnknownProperties was entered
NoEffect(wp) ==
  [threw |-> FALSE, wp |-> wp, out |-> <<>>, unknownProps |-> <<>>,
   rets |-> <<>>, ran |-> FALSE]

\* one iteration of the for-in loop, given validateProperty's outcome r
forInStep(acc, key, r) ==
  [threw        |-> r.threw,
   wp           |-> r.wp,
   out          |-> acc.out \o r.out,
   unknownProps |-> IF ~r.threw /\ ~r.ret THEN Append(acc.unknownProps, key)
                    ELSE acc.unknownProps,
   rets         |-> IF r.threw THEN acc.rets ELSE Append(acc.rets, r.ret),
   ran          |-> TRUE]

RECURSIVE forInProps(_, _, _, _, _, _)
\* the for-in loop of warnUnknownProperties from key i on; in a build without
\* __DEV__ validateProperty is undefined and calling it throws
forInProps(dv, acc, type, props, i, debugID) ==
  IF i > Len(props) \/ acc.threw THEN acc
  ELSE IF ~dv THEN [acc EXCEPT !.threw = TRUE]
  ELSE forInProps(dv,
         forInStep(acc, props[i].key,
                   validateProperty(acc.wp, type, props[i].key, debugID)),
         type, props, i + 1, debugID)

unknownPropStringOf(unknownProps) ==
  join([i \in 1..Len(unknownProps) |->
          <<BACKQUOTE>> \o unknownProps[i] \o <<BACKQUOTE>>], <<",", " ">>)

\* the end of warnUnknownProperties, after the loop
warnUnknown(acc, type, debugID) ==
  IF acc.threw THEN acc
  ELSE IF Len(acc.unknownProps) = 1
    THEN [acc EXCEPT !.out = Append(@,
           [format |-> unknownPropFormat,
            args   |-> <<unknownPropStringOf(acc.unknownProps), type>>,
            stack  |-> getStackAddendum(debugID)])]
  ELSE IF Len(acc.unknownProps) > 1
    THEN [acc EXCEPT !.out = Append(@,
           [format |-> unknownPropsFormat,
            args   |-> <<unknownPropStringOf(acc.unknownProps), type>>,
            stack  |-> getStackAddendum(debugID)])]
  ELSE acc

warnUnknownProperties(dv, wp, type, props, debugID) ==
  warnUnknown(forInProps(dv, [NoEffect(wp) EXCEPT !.ran = TRUE],
                         type, props, 1, debugID),
              type, debugID)

\* a JavaScript value is truthy unless it is the empty string (the prop
\* values used here are strings)
Truthy(v) == v # ""

\* props[key] as a condition: undefined, hence falsy, when key is absent
propTruthy(props, key) ==
  \E i \in 1..Len(props) : props[i].key = key /\ Truthy(props[i].value)

\* only the `is` prop marks a custom element
isCustomElement_IsOnly(type, props) == propTruthy(props, n_is)

isCustomElement(type, props) == indexOf(type, "-") >= 0 \/ propTruthy(props, n_is)

validateProperties(dv, wp, type, props, debugID) ==
  IF isCustomElement(type, props) THEN NoEffect(wp)
  ELSE warnUnknownProperties(dv, wp, type, props, debugID)

\* onBeforeMountComponent and onBeforeUpdateComponent have the same body
onBeforeComponent(dv, wp, debugID, element) ==
  IF dv /\ ~element.isNull /\ element.typeof = "string"
    THEN validateProperties(dv, wp, element.type, element.props, debugID)
    ELSE NoEffect(wp)

(* ------------------- properties.value.mutationMethod ------------------- *)
\* '' + value
JSToString(value) ==
  CASE value.t = "string"  -> value.s
    [] value.t = "number"  -> ToString(value.n)
    [] value.t = "boolean" -> IF value.b THEN "true" ELSE "false"
    [] value.t = "null"    -> "null"
    [] OTHER               -> "undefined"

\* value == null
isNullish(value) == value.t \in {"null", "undefined"}

\* a node is its type, its value attribute (None when it has none), its
\* validity object (present or not, and its badInput flag) and whether it is
\* its document's activeElement
\* the focused input is written like any other
mutationMethod_IgnoresFocus(nd, value) ==
  IF isNullish(value) THEN [nd EXCEPT !.attr = None]
  ELSE IF nd.type # "number" \/ nd.attr = None
    THEN [nd EXCEPT !.attr = Some(JSToString(value))]
  ELSE IF nd.validity.present /\ ~nd.validity.badInput
    THEN [nd EXCEPT !.attr = Some(JSToString(value))]
  ELSE nd

mutationMethod(nd, value) ==
  IF isNullish(value) THEN [nd EXCEPT !.attr = None]
  ELSE IF nd.type # "number" \/ nd.attr = None
    THEN [nd EXCEPT !.attr = Some(JSToString(value))]
  ELSE IF nd.validity.present /\ ~nd.validity.badInput /\ ~nd.active
    THEN [nd EXCEPT !.attr = Some(JSToString(value))]
  ELSE nd

(* ------------------------------- inputs -------------------------------- *)
PropNames ==
  {n_hasOwnProperty, n_class, n_Class, n_classname,
   n_onClick, n_onclick, n_children, n_foo, n_is}

Tags == {t_div, t_my_element}

\* the values a prop takes: every prop is a non-empty string, and `is` may
\* also be the empty string
PropValues(key) == IF key = n_is THEN {"", "x"} ELSE {"x"}

\* prop bags of at most n props over the given names, in insertion order,
\* keys distinct
PropBags(names, n) ==
  UNION {{b \in [1..k -> [key : names, value : {"", "x"}]] :
            /\ \A i \in 1..k : b[i].value \in PropValues(b[i].key)
            /\ \A i, j \in 1..k : i # j => b[i].key # b[j].key} : k \in 0..n}

NullElement == [isNull |-> TRUE, typeof |-> "object", type |-> <<>>,
                props |-> <<>>]

\* the elements handed to the Stack hooks: null, a composite element (its
\* type is a function), and host elements (their type is a string)
ElementsOver(names) ==
  {NullElement} \cup
  {[isNull |-> FALSE, typeof |-> "function", type |-> <<>>, props |-> <<>>]}
  \cup
  {[isNull |-> FALSE, typeof |-> "string", type |-> t, props |-> p] :
     t \in Tags, p \in PropBags(names, MaxElementProps)}

DebugIDs == {1}

\* the names of the three smaller runs
CustomNames == {n_is, n_class, n_foo, n_hasOwnProperty}
KnownNames  == {n_onClick, n_children, n_onclick, n_hasOwnProperty}

AllBags        == PropBags(PropNames, MaxProps)
AllElements    == ElementsOver(PropNames)
CustomBags     == PropBags(CustomNames, MaxProps)
CustomElements == ElementsOver(CustomNames)
KnownBags      == PropBags(KnownNames, MaxProps)
KnownElements  == ElementsOver(KnownNames)

Values ==
  {[t |-> "null"], [t |-> "undefined"],
   [t |-> "number", n |-> 1], [t |-> "number", n |-> -2],
   [t |-> "string", s |-> "1.50"], [t |-> "string", s |-> ""],
   [t |-> "boolean", b |-> FALSE]}

Validities ==
  {[present |-> FALSE, badInput |-> FALSE]} \cup
  {[present |-> TRUE, badInput |-> b] : b \in BOOLEAN}

Nodes ==
  {[type |-> ty, attr |-> a, validity |-> va, active |-> ac] :
     ty \in {"number", "text"}, a \in {None, Some("1"), Some("")},
     va \in Validities, ac \in BOOLEAN}

(* ------------------------------- state --------------------------------- *)
NoCall ==
  [op |-> "none", type |-> <<>>, props |-> <<>>, pre |-> {}, threw |-> FALSE,
   out |-> <<>>, unknownProps |-> <<>>, rets |-> <<>>, ran |-> FALSE]

NoMutation ==
  [called |-> FALSE, value |-> [t |-> "undefined"],
   before |-> CHOOSE nd \in Nodes : TRUE, after |-> CHOOSE nd \in Nodes : TRUE,
   retry |-> FALSE]

\* the call m left the value attribute of a number input as it was only
\* because the input had focus
withheldByFocus(m) ==
  /\ m.called
  /\ ~isNullish(m.value)
  /\ m.before.type = "number" /\ m.before.attr # None
  /\ m.before.validity.present /\ ~m.before.validity.badInput
  /\ m.before.active
  /\ m.after.attr = m.before.attr

\* the names a warning is about: the subject of a "Did you mean" warning,
\* the listed names of an "Unknown prop(s)" message
aboutCount(res, name) ==
  Cardinality({i \in 1..Len(res.out) :
                 /\ res.out[i].format \in {domPropertyFormat, eventHandlerFormat}
                 /\ res.out[i].args[1] = name})
  + (IF \E i \in 1..Len(res.out) :
          res.out[i].format \in {unknownPropFormat, unknownPropsFormat}
       THEN Cardinality({i \in 1..Len(res.unknownProps) :
                           res.unknownProps[i] = name})
       ELSE 0)

Record(op, type, props, res) ==
  /\ calls' = calls + 1
  /\ warnedProperties' = res.wp
  /\ last' = [op |-> op, type |-> type, props |-> props,
              pre |-> DOMAIN warnedProperties, threw |-> res.threw,
              out |-> res.out, unknownProps |-> res.unknownProps,
              rets |-> res.rets, ran |-> res.ran]
  /\ warnCount' = [n \in PropNames |-> warnCount[n] + aboutCount(res, n)]
  /\ UNCHANGED dev

Init ==
  /\ dev \in BOOLEAN
  /\ warnedProperties = << >>
  /\ calls = 0
  /\ last = NoCall
  /\ warnCount = [n \in PropNames |-> 0]
  /\ node = CHOOSE nd \in Nodes : TRUE
  /\ lastMutation = NoMutation
  /\ mutations = 0

ValidateProperties(type, props) ==
  /\ calls < MaxCalls
  /\ Record("validateProperties", type, props,
            validateProperties(dev, warnedProperties, type, props, NoDebugID))
  /\ UNCHANGED nodeVars

OnBeforeMountComponent(debugID, element) ==
  /\ calls < MaxCalls
  /\ Record("onBeforeMountComponent", element.type, element.props,
            onBeforeComponent(dev, warnedProperties, debugID, element))
  /\ UNCHANGED nodeVars

OnBeforeUpdateComponent(debugID, element) ==
  /\ calls < MaxCalls
  /\ Record("onBeforeUpdateComponent", element.type, element.props,
            onBeforeComponent(dev, warnedProperties, debugID, element))
  /\ UNCHANGED nodeVars

HookStep(bags, elements) ==
  \/ \E type \in Tags, props \in bags :
        ValidateProperties(type, props)
  \/ \E debugID \in DebugIDs, element \in elements :
        OnBeforeMountComponent(debugID, element)
  \/ \E debugID \in DebugIDs, element \in elements :
        OnBeforeUpdateComponent(debugID, element)

Next == HookStep(AllBags, AllElements)

Spec == Init /\ [][Next]_vars

\* the same hook over fewer names, so that longer runs stay within reach
NextCustom == HookStep(CustomBags, CustomElements)

SpecCustom == Init /\ [][NextCustom]_vars

NextKnown == HookStep(KnownBags, KnownElements)

SpecKnown == Init /\ [][NextKnown]_vars

(* the value attribute of one input node *)
InitValue ==
  /\ dev = TRUE
  /\ warnedProperties = << >>
  /\ calls = 0
  /\ last = NoCall
  /\ warnCount = [n \in PropNames |-> 0]
  /\ node \in Nodes
  /\ lastMutation = NoMutation
  /\ mutations = 0

MutationMethod(value) ==
  /\ mutations < MaxMutations
  /\ mutations' = mutations + 1
  /\ node' = mutationMethod(node, value)
  /\ lastMutation' = [called |-> TRUE, value |-> value, before |-> node,
                      after |-> node',
                      retry |-> withheldByFocus(lastMutation)
                                  /\ lastMutation.value = value]
  /\ UNCHANGED hookVars

\* the document's activeElement becomes this node
Focus ==
  /\ ~node.active
  /\ node' = [node EXCEPT !.active = TRUE]
  /\ UNCHANGED <<lastMutation, mutations>>
  /\ UNCHANGED hookVars

\* the node stops being the document's activeElement
Blur ==
  /\ node.active
  /\ node' = [node EXCEPT !.active = FALSE]
  /\ UNCHANGED <<lastMutation, mutations>>
  /\ UNCHANGED hookVars

\* the user edits the input: the browser recomputes validity.badInput
UserInput(bad) ==
  /\ node.validity.present
  /\ node.validity.badInput # bad
  /\ node' = [node EXCEPT !.validity.badInput = bad]
  /\ UNCHANGED <<lastMutation, mutations>>
  /\ UNCHANGED hookVars

NextValue ==
  \/ \E value \in Values : MutationMethod(value)
  \/ Focus
  \/ Blur
  \/ \E bad \in BOOLEAN : UserInput(bad)

SpecValue == InitValue /\ [][NextValue]_vars

(* ------------------------------ properties ----------------------------- *)
Called == last.op # "none"

Keys(props) == {props[i].key : i \in 1..Len(props)}

HasHyphen(type) == \E i \in 1..Len(type) : type[i] = "-"

\* the last call validated a standard tag in a development build
StandardCall ==
  /\ dev
  /\ Called
  /\ Len(last.type) > 0
  /\ ~HasHyphen(last.type)
  /\ n_is \notin Keys(last.props)

\* name is a prop of the last call that no earlier call had validated
Fresh(name) == name \in Keys(last.props) /\ name \notin last.pre

\* the "Did you mean" warnings of the last call about name
WarningsFor(name) ==
  {i \in 1..Len(last.out) :
     /\ last.out[i].format \in {domPropertyFormat, eventHandlerFormat}
     /\ last.out[i].args[1] = name}

\* the "Unknown prop(s)" messages of the last call
UnknownMessages ==
  {i \in 1..Len(last.out) :
     last.out[i].format \in {unknownPropFormat, unknownPropsFormat}}

Listed(name) == \E i \in 1..Len(last.unknownProps) : last.unknownProps[i] = name

\* C1 as stated: in a development build a call for a tag containing '-' or
\* for props that carry an `is` prop, whatever its value, emits no warning.
C1_Original ==
  (dev /\ Called /\ (HasHyphen(last.type) \/ n_is \in Keys(last.props)))
    => last.out = <<>>

\* C1 as amended: in a development build a call for a tag containing '-' or
\* for props whose `is` prop has a truthy value emits no warning, whatever
\* the other props are and whatever the earlier calls were.
C1_CustomElementsNeverWarn ==
  (dev /\ Called /\
     (HasHyphen(last.type) \/
      \E i \in 1..Len(last.props) :
         last.props[i].key = n_is /\ last.props[i].value # ""))
    => last.out = <<>>

\* a second call, for a <div is="x" class="x">, where class had not been
\* validated before and would have been warned about
C1_Witness ==
  /\ dev /\ calls = 2
  /\ last.type = t_div
  /\ \E i \in 1..Len(last.props) :
        last.props[i].key = n_is /\ last.props[i].value = "x"
  /\ Fresh(n_class)
  /\ last.pre # {}
  /\ last.out = <<>>

\* C2: over any sequence of calls every property name is the subject of at
\* most one warning in total (a "Did you mean" warning about it, or an
\* "Unknown prop(s)" message listing it).
C2_WarnsAtMostOnce == \A n \in PropNames : warnCount[n] <= 1

\* class was warned about by the first call and is validated again by the
\* second, which says nothing about it
C2_Witness ==
  /\ StandardCall /\ calls = 2
  /\ n_class \in Keys(last.props) /\ n_class \in last.pre
  /\ warnCount[n_class] = 1
  /\ last.ran /\ ~last.threw
  /\ WarningsFor(n_class) = {}

\* the names C3 calls unknown: no DOM attribute of the registry, no reserved
\* prop, no event-registration name, and no alias or near-miss of one
IsUnknownName(name) ==
  /\ name \notin DOMAIN properties
  /\ name \notin DOMAIN RESERVED_PROPS
  /\ name \notin DOMAIN registrationNameModules
  /\ toLowerCase(name) \notin {toLowerCase(k) : k \in DOMAIN aliasTable}
  /\ toLowerCase(name) \notin {toLowerCase(k) : k \in DOMAIN properties}
  /\ toLowerCase(name) \notin DOMAIN possibleRegistrationNames

\* the unknown names of the last call that had not been validated before, in
\* the order of the prop bag
FreshUnknown ==
  LET keys == [i \in 1..Len(last.props) |-> last.props[i].key]
      Test(k) == k \notin last.pre /\ IsUnknownName(k)
  IN  SelectSeq(keys, Test)

\* C3: a call for a standard tag with k >= 1 not-yet-validated unknown names
\* emits exactly one "Unknown prop" message listing exactly those names, in
\* backquotes and joined by ", ", singular for k = 1 and plural for k > 1,
\* and no such message for k = 0.
C3_Original ==
  (StandardCall /\ ~last.threw) =>
    IF Len(FreshUnknown) = 0 THEN UnknownMessages = {}
    ELSE /\ Cardinality(UnknownMessages) = 1
         /\ \A i \in UnknownMessages :
              /\ last.out[i].args[1] = unknownPropStringOf(FreshUnknown)
              /\ last.out[i].format =
                   IF Len(FreshUnknown) = 1 THEN unknownPropFormat
                   ELSE unknownPropsFormat

\* the canonical name the alias table gives for name, casing ignored
AliasOf(name) ==
  aliasTable[CHOOSE k \in DOMAIN aliasTable : toLowerCase(k) = toLowerCase(name)]

\* C4: for a standard tag every not-yet-validated name that matches a key of
\* the alias table in any letter casing, and is not the canonical name
\* itself, gets a "Did you mean" warning suggesting the canonical name.
C4_Original ==
  (StandardCall /\ ~last.threw) =>
    \A name \in Keys(last.props) :
      (/\ name \notin last.pre
       /\ toLowerCase(name) \in {toLowerCase(k) : k \in DOMAIN aliasTable}
       /\ name # AliasOf(name))
        => /\ Cardinality(WarningsFor(name)) = 1
           /\ \A i \in WarningsFor(name) :
                last.out[i].args = <<name, AliasOf(name)>>

\* C5: no call throws, in a development build or not, and outside a
\* development build no call emits a warning.
C5_Original ==
  Called => (~last.threw /\ (~dev => last.out = <<>>))

\* C6: for a standard tag a name whose lowercase form is the lowercase form of
\* a canonical name of DOMProperty.properties, and which is not that name,
\* gets, when first validated, a warning suggesting the canonical name.
C6_Original ==
  (StandardCall /\ ~last.threw) =>
    \A name \in Keys(last.props) :
      \A canonical \in DOMAIN properties :
        (/\ name \notin last.pre
         /\ toLowerCase(canonical) = toLowerCase(name)
         /\ canonical # name)
          => \E i \in WarningsFor(name) :
               last.out[i].args = <<name, canonical>>

\* the names C7 calls Known
KnownPropNames == DOMAIN registrationNameModules \cup DOMAIN RESERVED_PROPS

\* C7: for a standard tag an exact event-registration name or a reserved prop
\* is never the subject of a warning and never listed as unknown, in every
\* cache state; a call all of whose props are such names emits nothing.
C7_KnownNamesNeverWarn ==
  /\ StandardCall =>
       /\ \A name \in Keys(last.props) \cap KnownPropNames :
            WarningsFor(name) = {} /\ ~Listed(name)
       /\ Keys(last.props) \subseteq KnownPropNames => last.out = <<>>
  /\ \A name \in KnownPropNames \cap PropNames : warnCount[name] = 0
  /\ dev =>
       \A name \in KnownPropNames :
         /\ validateProperty(warnedProperties, t_div, name, NoDebugID).out = <<>>
         /\ validateProperty(warnedProperties, t_div, name, NoDebugID).ret
              \/ validateProperty(warnedProperties, t_div, name, NoDebugID).threw

\* a second call validates onClick and children for the first time, together
\* with nothing else, and says nothing
C7_Witness ==
  /\ StandardCall /\ calls = 2
  /\ Fresh(n_onClick) /\ Fresh(n_children)
  /\ last.pre # {}
  /\ last.ran /\ ~last.threw
  /\ last.rets = <<TRUE, TRUE>>
  /\ last.out = <<>>

\* C8: for a standard tag a not-yet-validated name that is no exact
\* registration name but whose lowercase form is a key of
\* possibleRegistrationNames gets exactly one warning, the "Unknown event
\* handler property" one naming the registry's entry, no "Unknown DOM
\* property" warning, and is not listed as unknown; an exact registration
\* name never gets this warning.
C8_Original ==
  StandardCall =>
    \A name \in Keys(last.props) :
      /\ (/\ name \notin last.pre
          /\ name \notin DOMAIN registrationNameModules
          /\ toLowerCase(name) \in DOMAIN possibleRegistrationNames)
           => /\ Cardinality(WarningsFor(name)) = 1
              /\ \A i \in WarningsFor(name) :
                   /\ last.out[i].format = eventHandlerFormat
                   /\ last.out[i].args =
                        <<name, possibleRegistrationNames[toLowerCase(name)]>>
              /\ ~Listed(name)
      /\ name \in DOMAIN registrationNameModules => WarningsFor(name) = {}

\* '' + value for the values the node is given, written out
StringForm(value) ==
  CASE value = [t |-> "number", n |-> 1]      -> "1"
    [] value = [t |-> "number", n |-> -2]     -> "-2"
    [] value = [t |-> "string", s |-> "1.50"] -> "1.50"
    [] value = [t |-> "string", s |-> ""]     -> ""
    [] value = [t |-> "boolean", b |-> FALSE] -> "false"

====
